---- MODULE Spec2Model ----
(***************************************************************************)
(* The contact-payment lifecycle of the rental marketplace: the initiation *)
(* function (supabase/functions/mpesa-payment), the provider callback      *)
(* (supabase/functions/mpesa-callback), the entitlement functions of the   *)
(* database, the expiry-reminder job and the payment modal of the          *)
(* property-details page.                                                  *)
(***************************************************************************)
EXTENDS Integers, Sequences, FiniteSets, TLC

VARIABLES
    now,        \* the clock, in ticks (TicksPerDay ticks make a day)
    payments,   \* table contact_payments: a sequence of rows, id = index
    propPhone,  \* column properties.phone, per property
    init,       \* the initiation requests in flight, per slot
    provider,   \* the checkout requests the provider has accepted
    cb,         \* the callback requests in flight, per slot
    stkLog,     \* history: the STK push requests sent to the provider
    reminders,  \* history: the reminder emails sent, with the time the job ran
    query,      \* the last call of a database function, with its result
    page,       \* the property-details page of one browser
    poll,       \* the status poll of the payment modal
    notifications,  \* table property_notifications, per notification id
    propStatus  \* column properties.status, per property

vars == <<now, payments, propPhone, init, provider, cb, stkLog, reminders, query, page, poll,
          notifications, propStatus>>

NULL == "NULL"

----------------------------------------------------------------------------
(* Bounds of the model *)

MaxPayments == 2        \* rows the table may hold
TicksPerDay == 2        \* resolution of the clock
TickDays == 14          \* days the lifecycle clock advances by in one step
MaxDays == 14            \* the lifecycle clock stops here
MaxDbDays == 15         \* the clock of the database functions stops here

(* Program constants *)

ExpiryDays == 14        \* expires_at DEFAULT now() + INTERVAL '14 days'
ReminderDays == 2       \* twoDaysFromNow.setDate(twoDaysFromNow.getDate() + 2)
NullTime == -1          \* a timestamp column that IS NULL
ContactFee == 50        \* amount: 50 sent by the payment modal
MaxAttempts == 60       \* const maxAttempts = 60
FirstDelay == 3000      \* setTimeout(checkStatus, 3000)
PollDelay == 5000       \* setTimeout(checkStatus, 5000)

Day == TicksPerDay
MaxTime == MaxDays * Day

Users == {"u1", "u2"}
Properties == {"p1", "p2"}

----------------------------------------------------------------------------
(* Phone numbers are strings: sequences of one-character strings. *)

Digits == {"0", "1", "2", "3", "4", "5", "6", "7", "8", "9"}

RECURSIVE StripNonDigits(_)
\* phoneNumber.replace(/\D/g, "")
StripNonDigits(s) ==
    IF s = <<>> THEN <<>>
    ELSE IF Head(s) \in Digits THEN <<Head(s)>> \o StripNonDigits(Tail(s))
         ELSE StripNonDigits(Tail(s))

StartsWith(s, p) == Len(s) >= Len(p) /\ SubSeq(s, 1, Len(p)) = p

\* s.substring(k): the characters from index k (0-based) on
Substring(s, k) == IF k >= Len(s) THEN <<>> ELSE SubSeq(s, k + 1, Len(s))

\* /^[7][0-9]{8}$/
IsSubscriber(s) ==
    /\ Len(s) = 9
    /\ s[1] = "7"
    /\ \A i \in 2..9 : s[i] \in Digits

\* cleanPhone.match(/^(254|0)?[7][0-9]{8}$/)
MatchesKenyan(s) ==
    \/ IsSubscriber(s)
    \/ StartsWith(s, <<"0">>) /\ IsSubscriber(Substring(s, 1))
    \/ StartsWith(s, <<"2", "5", "4">>) /\ IsSubscriber(Substring(s, 3))

\* cleanPhone.startsWith("254") ? cleanPhone : "254" + cleanPhone.substring(1)
FormatPhone(cleanPhone) ==
    IF StartsWith(cleanPhone, <<"2", "5", "4">>)
    THEN cleanPhone
    ELSE <<"2", "5", "4">> \o Substring(cleanPhone, 1)

PhoneLocal == <<"0", "7", "1", "2", "3", "4", "5", "6", "7", "8">>
PhoneIntl == <<"+", "2", "5", "4", " ", "7", "1", "2", "3", "4", "5", "6", "7", "8">>
PhoneBare == <<"7", "1", "2", "3", "4", "5", "6", "7", "8">>
PhoneBad == <<"0", "6", "1", "2", "3", "4", "5", "6", "7", "8">>

PhoneInputs == {PhoneLocal, PhoneIntl, PhoneBare, PhoneBad, <<>>}

----------------------------------------------------------------------------
(* Table contact_payments *)

\* expires_at DEFAULT (now() + INTERVAL '14 days')
DefaultExpiry(t) == t + ExpiryDays * Day

\* the row the initiation function inserts; the database fills the defaults
NewPayment(user, propertyId, amount, formattedPhone, t) ==
    [ user_id             |-> user,
      property_id         |-> propertyId,
      amount              |-> amount * 100,
      phone_number        |-> formattedPhone,
      payment_status      |-> "pending",
      checkout_request_id |-> NULL,
      transaction_id      |-> NULL,
      created_at          |-> t,
      updated_at          |-> t,
      expires_at          |-> DefaultExpiry(t) ]

PaymentIds == 1..Len(payments)

----------------------------------------------------------------------------
(* The initiation function, mpesa-payment.  A request occupies a slot; pc  *)
(* is the await it is suspended at.                                        *)

\* one initiation request runs at a time; callbacks run beside it
Slots == {"req"}

AuthHeaders == Users \cup {"none", "badToken"}
Amounts == {0, 1, ContactFee}
Bodies == [propertyId : Properties \cup {NULL}, amount : Amounts, phoneNumber : PhoneInputs]
EnvOutcomes == {"ok", "noCredentials", "oauthFailed"}

\* no response yet
NoResponse ==
    [status |-> 0, success |-> FALSE, error |-> NULL,
     checkoutRequestId |-> NULL, paymentId |-> 0]

\* no request yet
NoRequest == [auth |-> "none", propertyId |-> NULL, amount |-> 0, phoneNumber |-> <<>>]

\* the request as it arrived: the Authorization header and the body
Received(auth, body) ==
    [auth |-> auth, propertyId |-> body.propertyId, amount |-> body.amount,
     phoneNumber |-> body.phoneNumber]

IdleInit ==
    [ pc |-> "idle", request |-> NoRequest, user |-> NULL, propertyId |-> NULL,
      amount |-> 0, phone |-> <<>>, paymentId |-> 0, checkoutId |-> NULL,
      resp |-> NoResponse ]

\* the catch block: status 500, success: false, error: error.message
ErrorResponse(message) ==
    [status |-> 500, success |-> FALSE, error |-> message,
     checkoutRequestId |-> NULL, paymentId |-> 0]

SuccessResponse(checkoutId, paymentId) ==
    [status |-> 200, success |-> TRUE, error |-> NULL,
     checkoutRequestId |-> checkoutId, paymentId |-> paymentId]

\* the request ends in the catch block; only the record it created is remembered
Throw(r, message) ==
    [IdleInit EXCEPT !.pc = "done", !.request = r.request,
                     !.paymentId = r.paymentId,
                     !.resp = ErrorResponse(message)]

\* as ValidationError, without the check of the phone number
ValidationErrorSkippingPhone(auth, body, env) ==
    IF auth = "none" THEN "No authorization header"
    ELSE IF auth \notin Users THEN "User not authenticated"
    ELSE IF body.propertyId = NULL \/ body.amount = 0 \/ body.phoneNumber = <<>>
         THEN "Missing required fields: propertyId, amount, phoneNumber"
    ELSE IF env = "noCredentials"
         THEN "M-Pesa credentials are not configured. Please contact support."
    ELSE IF env = "oauthFailed"
         THEN "M-Pesa authentication failed. Please verify API credentials are correct."
    ELSE NULL

\* the checks before the record is created; NULL when none throws
ValidationError(auth, body, env) ==
    IF auth = "none" THEN "No authorization header"
    ELSE IF auth \notin Users THEN "User not authenticated"
    ELSE IF body.propertyId = NULL \/ body.amount = 0 \/ body.phoneNumber = <<>>
         THEN "Missing required fields: propertyId, amount, phoneNumber"
    ELSE IF ~MatchesKenyan(StripNonDigits(body.phoneNumber))
         THEN "Invalid phone number format. Use format: 0712345678"
    ELSE IF env = "noCredentials"
         THEN "M-Pesa credentials are not configured. Please contact support."
    ELSE IF env = "oauthFailed"
         THEN "M-Pesa authentication failed. Please verify API credentials are correct."
    ELSE NULL

\* a request arrives and runs up to the insert of the payment record
Initiate(s, auth, body, env) ==
    /\ init[s].pc \in {"idle", "done"}
    /\ Len(payments) < MaxPayments
    /\ LET err == ValidationError(auth, body, env) IN
       init' = [init EXCEPT ![s] =
                  IF err # NULL
                  THEN Throw([IdleInit EXCEPT !.request = Received(auth, body)], err)
                  ELSE [IdleInit EXCEPT
                          !.pc = "insert",
                          !.request = Received(auth, body),
                          !.user = auth,
                          !.propertyId = body.propertyId,
                          !.amount = body.amount,
                          !.phone = FormatPhone(StripNonDigits(body.phoneNumber))]]

\* a request of a client that is not modelled
Request(s, auth, body, env) ==
    /\ Initiate(s, auth, body, env)
    /\ UNCHANGED <<now, payments, propPhone, provider, cb, stkLog, reminders, query, page, poll, notifications, propStatus>>

\* as InsertFails, but paymentError is not read and the request goes on
InsertFailsIgnored(s) ==
    /\ init[s].pc = "insert"
    /\ init' = [init EXCEPT ![s].pc = "stk"]
    /\ UNCHANGED <<now, payments, propPhone, provider, cb, stkLog, reminders, query, page, poll, notifications, propStatus>>

\* the insert fails: paymentError
InsertFails(s) ==
    /\ init[s].pc = "insert"
    /\ init' = [init EXCEPT ![s] = Throw(@, "Failed to create payment record")]
    /\ UNCHANGED <<now, payments, propPhone, provider, cb, stkLog, reminders, query, page, poll, notifications, propStatus>>

\* the insert succeeds; then the shortcode and passkey are read
InsertRecord(s, configured) ==
    /\ init[s].pc = "insert"
    /\ Len(payments) < MaxPayments
    /\ LET r == init[s]
           row == NewPayment(r.user, r.propertyId, r.amount, r.phone, now)
           id == Len(payments) + 1
       IN /\ payments' = Append(payments, row)
          /\ init' = [init EXCEPT ![s] =
                        IF configured
                        THEN [r EXCEPT !.pc = "stk", !.paymentId = id]
                        ELSE Throw([r EXCEPT !.paymentId = id],
                               "M-Pesa payment configuration incomplete. Please contact support.")]
    /\ UNCHANGED <<now, propPhone, provider, cb, stkLog, reminders, query, page, poll, notifications, propStatus>>

\* the request body of the STK push, with the state of the record when it is sent
StkPushPayload(r) ==
    [ paymentId   |-> r.paymentId,
      user        |-> r.user,
      propertyId  |-> r.propertyId,
      Amount      |-> r.amount,
      PhoneNumber |-> r.phone,
      recordStatus |-> IF r.paymentId \in PaymentIds
                       THEN payments[r.paymentId].payment_status ELSE NULL ]

\* the provider's next CheckoutRequestID
NextCheckoutId == "ws_CO_" \o ToString(Cardinality(provider) + 1)

\* the fetch or the parse of its answer throws; the provider may have accepted
StkPushThrows(s, accepted) ==
    /\ init[s].pc = "stk"
    /\ stkLog' = stkLog \cup {StkPushPayload(init[s])}
    /\ provider' = IF accepted THEN provider \cup {NextCheckoutId} ELSE provider
    /\ init' = [init EXCEPT ![s] = Throw(@, "fetch failed")]
    /\ UNCHANGED <<now, payments, propPhone, cb, reminders, query, page, poll, notifications, propStatus>>

\* the provider answers ResponseCode "0" with a CheckoutRequestID
StkPushAccepted(s) ==
    /\ init[s].pc = "stk"
    /\ stkLog' = stkLog \cup {StkPushPayload(init[s])}
    /\ provider' = provider \cup {NextCheckoutId}
    /\ init' = [init EXCEPT ![s].pc = "store", ![s].checkoutId = NextCheckoutId]
    /\ UNCHANGED <<now, payments, propPhone, cb, reminders, query, page, poll, notifications, propStatus>>

\* the provider answers another ResponseCode
StkPushRejected(s) ==
    /\ init[s].pc = "stk"
    /\ stkLog' = stkLog \cup {StkPushPayload(init[s])}
    /\ init' = [init EXCEPT ![s].pc = "markFailed"]
    /\ UNCHANGED <<now, payments, propPhone, provider, cb, reminders, query, page, poll, notifications, propStatus>>

\* update({checkout_request_id}).eq("id", paymentRecord.id); its error is not read
StoreCheckoutId(s, dbOk) ==
    /\ init[s].pc = "store"
    /\ LET r == init[s] IN
       /\ payments' = IF dbOk
                      THEN [payments EXCEPT ![r.paymentId].checkout_request_id = r.checkoutId]
                      ELSE payments
       /\ init' = [init EXCEPT ![s] =
                     [IdleInit EXCEPT !.pc = "done", !.request = r.request,
                                      !.paymentId = r.paymentId,
                                      !.checkoutId = r.checkoutId,
                                      !.resp = SuccessResponse(r.checkoutId, r.paymentId)]]
    /\ UNCHANGED <<now, propPhone, provider, cb, stkLog, reminders, query, page, poll, notifications, propStatus>>

\* update({payment_status: "failed"}).eq("id", paymentRecord.id); then the throw
MarkFailed(s, dbOk) ==
    /\ init[s].pc = "markFailed"
    /\ LET r == init[s] IN
       /\ payments' = IF dbOk
                      THEN [payments EXCEPT ![r.paymentId].payment_status = "failed"]
                      ELSE payments
       /\ init' = [init EXCEPT ![s] = Throw(@, "STK Push failed")]
    /\ UNCHANGED <<now, propPhone, provider, cb, stkLog, reminders, query, page, poll, notifications, propStatus>>

----------------------------------------------------------------------------
(* The callback function, mpesa-callback.                                  *)

CallbackSlots == {"cb"}

ResultCodes == {0, 1032}
Receipts == {NULL, "RCPT"}

\* the stkCallback bodies that reach the endpoint: for the checkout requests
\* the provider accepted, and for an id no checkout request has
Callbacks ==
    [CheckoutRequestID : provider, ResultCode : ResultCodes, Receipt : Receipts]
    \cup {[CheckoutRequestID |-> "ws_CO_none", ResultCode |-> 0, Receipt |-> "RCPT"]}

NoCallback == [CheckoutRequestID |-> NULL, ResultCode |-> -1, Receipt |-> NULL]

IdleCallback ==
    [ pc |-> "idle", msg |-> NoCallback, paymentId |-> 0, at |-> 0, status |-> 0,
      repeat |-> FALSE, beforeStatus |-> NULL, beforeTransaction |-> NULL ]

\* select("*").eq("checkout_request_id", CheckoutRequestID)
MatchingIds(rows, checkoutId) ==
    {i \in 1..Len(rows) : rows[i].checkout_request_id = checkoutId}

\* as FindPayment, but the first of several matching rows is taken
FindPaymentFirstMatch(rows, checkoutId) ==
    LET m == MatchingIds(rows, checkoutId) IN
    IF m # {} THEN CHOOSE i \in m : \A j \in m : i <= j ELSE 0

\* .single(): the row when exactly one matches, else an error (0)
FindPayment(rows, checkoutId) ==
    LET m == MatchingIds(rows, checkoutId) IN
    IF Cardinality(m) = 1 THEN CHOOSE i \in m : TRUE ELSE 0

\* as UpdatedRow, but a callback for a record that is not 'pending' fails it
UpdatedRowRefusingRepeat(row, msg, t) ==
    IF msg.ResultCode = 0 /\ row.payment_status = "pending"
    THEN [row EXCEPT !.updated_at = t,
                     !.payment_status = "completed",
                     !.transaction_id = IF msg.Receipt # NULL THEN msg.Receipt ELSE @]
    ELSE [row EXCEPT !.updated_at = t,
                     !.payment_status = "failed"]

\* as UpdatedRow, but the access period starts anew when the payment completes
UpdatedRowRenewingExpiry(row, msg, t) ==
    IF msg.ResultCode = 0
    THEN [row EXCEPT !.updated_at = t,
                     !.payment_status = "completed",
                     !.transaction_id = IF msg.Receipt # NULL THEN msg.Receipt ELSE @,
                     !.expires_at = t + ExpiryDays * Day]
    ELSE [row EXCEPT !.updated_at = t,
                     !.payment_status = "failed"]

\* as UpdatedRow, but a failed payment loses its receipt
UpdatedRowClearingReceipt(row, msg, t) ==
    IF msg.ResultCode = 0
    THEN [row EXCEPT !.updated_at = t,
                     !.payment_status = "completed",
                     !.transaction_id = IF msg.Receipt # NULL THEN msg.Receipt ELSE @]
    ELSE [row EXCEPT !.updated_at = t,
                     !.payment_status = "failed",
                     !.transaction_id = NULL]

\* the row after update(updateData): updateData is built from the callback
UpdatedRow(row, msg, t) ==
    IF msg.ResultCode = 0
    THEN [row EXCEPT !.updated_at = t,
                     !.payment_status = "completed",
                     !.transaction_id = IF msg.Receipt # NULL THEN msg.Receipt ELSE @]
    ELSE [row EXCEPT !.updated_at = t,
                     !.payment_status = "failed"]

\* the whole handler on a table, when the database serves both requests
HandleCallback(rows, msg, t) ==
    LET id == FindPayment(rows, msg.CheckoutRequestID) IN
    IF id = 0 THEN [rows |-> rows, status |-> 404]
    ELSE [rows |-> [rows EXCEPT ![id] = UpdatedRow(rows[id], msg, t)], status |-> 200]

\* the body cannot be parsed: the catch block answers 500
CallbackUnparsable(c) ==
    /\ cb[c].pc \in {"idle", "done"}
    /\ cb' = [cb EXCEPT ![c] = [IdleCallback EXCEPT !.pc = "done", !.status = 500]]
    /\ UNCHANGED <<now, payments, propPhone, init, provider, stkLog, reminders, query, page, poll, notifications, propStatus>>

\* a callback arrives; the record is looked up and updateData is built
CallbackReceive(c, msg) ==
    /\ cb[c].pc \in {"idle", "done"}
    /\ LET id == FindPayment(payments, msg.CheckoutRequestID)
           again == cb[c].pc = "done" /\ cb[c].msg = msg /\ cb[c].status = 200
       IN cb' = [cb EXCEPT ![c] =
                   IF id = 0
                   THEN [IdleCallback EXCEPT !.pc = "done", !.msg = msg, !.status = 404]
                   ELSE [IdleCallback EXCEPT !.pc = "update", !.msg = msg,
                                             !.paymentId = id, !.at = now,
                                             !.repeat = again,
                                             !.beforeStatus = payments[id].payment_status,
                                             !.beforeTransaction = payments[id].transaction_id]]
    /\ UNCHANGED <<now, payments, propPhone, init, provider, stkLog, reminders, query, page, poll, notifications, propStatus>>

\* update(updateData).eq("id", payment.id), and the response
CallbackUpdate(c) ==
    /\ cb[c].pc = "update"
    /\ LET r == cb[c] IN
       payments' = [payments EXCEPT ![r.paymentId] = UpdatedRow(@, r.msg, r.at)]
    /\ cb' = [cb EXCEPT ![c].pc = "done", ![c].status = 200]
    /\ UNCHANGED <<now, propPhone, init, provider, stkLog, reminders, query, page, poll, notifications, propStatus>>

\* the update fails: updateError, answered 500
CallbackUpdateFails(c) ==
    /\ cb[c].pc = "update"
    /\ cb' = [cb EXCEPT ![c].pc = "done", ![c].status = 500]
    /\ UNCHANGED <<now, payments, propPhone, init, provider, stkLog, reminders, query, page, poll, notifications, propStatus>>

----------------------------------------------------------------------------
(* The entitlement functions of the database.                              *)

\* one row of the EXISTS subquery both functions share
GrantsAccess(row, propertyId, userId, t) ==
    /\ row.property_id = propertyId
    /\ row.user_id = userId
    /\ row.payment_status = "completed"
    /\ (row.expires_at = NullTime \/ row.expires_at > t)

\* as HasPaidForContactAccess, without the expiry check
HasPaidIgnoringExpiry(rows, propertyId, userId, t) ==
    \E i \in 1..Len(rows) :
        /\ rows[i].property_id = propertyId
        /\ rows[i].user_id = userId
        /\ rows[i].payment_status = "completed"

\* has_paid_for_contact_access(p_property_id, p_user_id)
HasPaidForContactAccess(rows, propertyId, userId, t) ==
    \E i \in 1..Len(rows) : GrantsAccess(rows[i], propertyId, userId, t)

\* as GetPropertiesWithConditionalPhone, without cp.property_id = p.id
GetPropertiesForAnyPayment(rows, phones, uid, t) ==
    [p \in Properties |->
       IF uid # NULL
          /\ (\E i \in 1..Len(rows), q \in Properties : GrantsAccess(rows[i], q, uid, t))
       THEN phones[p]
       ELSE NULL]

\* get_properties_with_conditional_phone(): the phone column of each property,
\* for the caller auth.uid() (NULL when anonymous)
GetPropertiesWithConditionalPhone(rows, phones, uid, t) ==
    [p \in Properties |->
       IF uid # NULL /\ (\E i \in 1..Len(rows) : GrantsAccess(rows[i], p, uid, t))
       THEN phones[p]
       ELSE NULL]

NoPhones == [p \in Properties |-> NULL]

NoQuery ==
    [fn |-> "none", caller |-> NULL, propertyId |-> NULL, granted |-> FALSE,
     phones |-> NoPhones]

\* a call of has_paid_for_contact_access
CheckAccess(userId, propertyId) ==
    /\ query' = [NoQuery EXCEPT
                   !.fn = "has_paid_for_contact_access",
                   !.caller = userId,
                   !.propertyId = propertyId,
                   !.granted = HasPaidForContactAccess(payments, propertyId, userId, now)]
    /\ UNCHANGED <<now, payments, propPhone, init, provider, cb, stkLog, reminders, page, poll, notifications, propStatus>>

\* a call of get_properties_with_conditional_phone by uid
ListProperties(uid) ==
    /\ query' = [NoQuery EXCEPT
                   !.fn = "get_properties_with_conditional_phone",
                   !.caller = uid,
                   !.phones = GetPropertiesWithConditionalPhone(payments, propPhone, uid, now)]
    /\ UNCHANGED <<now, payments, propPhone, init, provider, cb, stkLog, reminders, page, poll, notifications, propStatus>>

----------------------------------------------------------------------------
(* The expiry-reminder job, send-expiry-reminders.                         *)

\* setHours(0, 0, 0, 0)
StartOfDay(t) == (t \div Day) * Day

\* setHours(23, 59, 59, 999): the last instant of the day
EndOfDay(t) == StartOfDay(t) + Day - 1

\* the rows the window query selects when the job runs at t
ExpiringPayments(rows, t) ==
    LET twoDaysFromNow == t + ReminderDays * Day
        twoDaysStart == StartOfDay(twoDaysFromNow)
        twoDaysEnd == EndOfDay(twoDaysFromNow)
    IN {i \in 1..Len(rows) :
          /\ rows[i].payment_status = "completed"
          /\ rows[i].expires_at # NullTime
          /\ rows[i].expires_at >= twoDaysStart
          /\ rows[i].expires_at <= twoDaysEnd}

\* one run of the job: an email goes out for each selected payment, except
\* those skipped (no profile email, no property) or whose send throws
RunReminders(skipped) ==
    /\ skipped \subseteq ExpiringPayments(payments, now)
    /\ reminders' = {[paymentId |-> i, ranAt |-> now] :
                       i \in ExpiringPayments(payments, now) \ skipped}
    /\ UNCHANGED <<now, payments, propPhone, init, provider, cb, stkLog, query, page, poll, notifications, propStatus>>

----------------------------------------------------------------------------
(* The property-details page and its payment modal, in one browser.        *)

IdlePage ==
    [ user |-> NULL, propertyId |-> NULL, phone |-> NULL,
      hasPaidForContact |-> FALSE, showPaymentModal |-> FALSE,
      isProcessing |-> FALSE, toast |-> NULL ]

IdlePoll ==
    [ pc |-> "idle", paymentId |-> 0, attempts |-> 0, elapsed |-> 0,
      outcome |-> NULL ]

\* checkPaymentStatus: the user's 'completed' records for the property,
\* .maybeSingle(): data only when exactly one row matches
CheckPaymentStatus(rows, userId, propertyId) ==
    Cardinality({i \in 1..Len(rows) :
                   /\ rows[i].user_id = userId
                   /\ rows[i].property_id = propertyId
                   /\ rows[i].payment_status = "completed"}) = 1

\* the first button of the contact card
ContactButton(pg) ==
    IF pg.user = NULL THEN [label |-> "Sign in to view contact", tel |-> NULL]
    ELSE IF ~pg.hasPaidForContact THEN [label |-> "Pay to view contact", tel |-> NULL]
    ELSE IF pg.phone # NULL THEN [label |-> "Call", tel |-> pg.phone]
    ELSE [label |-> "Phone not provided", tel |-> NULL]

\* the page is opened by user (NULL when signed out): fetchProperty, then
\* checkPaymentStatus; a page that is opened has no modal and no poll
OpenPage(user, propertyId) ==
    /\ \A s \in Slots : init[s].pc \in {"idle", "done"}
    /\ page' = [IdlePage EXCEPT
                  !.user = user,
                  !.propertyId = propertyId,
                  !.phone = GetPropertiesWithConditionalPhone(
                                payments, propPhone, user, now)[propertyId],
                  !.hasPaidForContact =
                      user # NULL /\ CheckPaymentStatus(payments, user, propertyId)]
    /\ poll' = IdlePoll
    /\ UNCHANGED <<now, payments, propPhone, init, provider, cb, stkLog, reminders, query, notifications, propStatus>>

\* the pay button opens the modal
OpenModal ==
    /\ page.user # NULL
    /\ page.propertyId # NULL
    /\ ~page.hasPaidForContact
    /\ ~page.showPaymentModal
    /\ page' = [page EXCEPT !.showPaymentModal = TRUE]
    /\ UNCHANGED <<now, payments, propPhone, init, provider, cb, stkLog, reminders, query, poll, notifications, propStatus>>

\* handlePayment: the form is submitted; a phone number that fails the
\* check is refused with a toast, else mpesa-payment is invoked
HandlePayment(s, phoneNumber, env) ==
    /\ page.showPaymentModal
    /\ ~page.isProcessing
    /\ poll.pc = "idle"
    /\ IF phoneNumber = <<>>
       THEN /\ page' = [page EXCEPT !.toast = "Phone Number Required"]
            /\ UNCHANGED init
       ELSE IF ~MatchesKenyan(StripNonDigits(phoneNumber))
       THEN /\ page' = [page EXCEPT !.toast = "Invalid Phone Number"]
            /\ UNCHANGED init
       ELSE /\ page' = [page EXCEPT !.isProcessing = TRUE]
            /\ Initiate(s, page.user,
                        [propertyId |-> page.propertyId, amount |-> ContactFee,
                         phoneNumber |-> phoneNumber], env)
    /\ UNCHANGED <<now, payments, propPhone, provider, cb, stkLog, reminders, query, poll, notifications, propStatus>>

\* handlePayment resumes with the response: pollPaymentStatus(data.paymentId)
\* on success, the 'Payment Failed' toast otherwise
PaymentResponse(s) ==
    /\ page.isProcessing
    /\ init[s].pc = "done"
    /\ IF init[s].resp.success
       THEN /\ page' = [page EXCEPT !.isProcessing = FALSE, !.toast = "Payment Initiated"]
            /\ poll' = [IdlePoll EXCEPT !.pc = "waiting",
                                        !.paymentId = init[s].resp.paymentId]
       ELSE /\ page' = [page EXCEPT !.isProcessing = FALSE, !.toast = "Payment Failed"]
            /\ poll' = poll
    /\ UNCHANGED <<now, payments, propPhone, init, provider, cb, stkLog, reminders, query, notifications, propStatus>>

\* the delay of the timer that runs the next check
NextDelay(attempts) == IF attempts = 0 THEN FirstDelay ELSE PollDelay

\* onPaymentSuccess and onClose of the page
OnPaymentSuccess(pg) ==
    [pg EXCEPT !.hasPaidForContact = TRUE, !.showPaymentModal = FALSE]

\* checkStatus: the timer fires and the status query answers
CheckStatus ==
    /\ poll.pc = "waiting"
    /\ LET attempts == poll.attempts + 1
           elapsed == poll.elapsed + NextDelay(poll.attempts)
           status == payments[poll.paymentId].payment_status
           checked == [poll EXCEPT !.attempts = attempts, !.elapsed = elapsed]
       IN IF status = "completed"
          THEN /\ poll' = [checked EXCEPT !.pc = "ended", !.outcome = "Payment Successful"]
               /\ page' = [OnPaymentSuccess(page) EXCEPT !.toast = "Payment Successful"]
          ELSE IF status = "failed"
          THEN /\ poll' = [checked EXCEPT !.pc = "ended", !.outcome = "Payment Failed"]
               /\ page' = [page EXCEPT !.toast = "Payment Failed"]
          ELSE IF attempts < MaxAttempts
          THEN /\ poll' = checked
               /\ page' = page
          ELSE /\ poll' = [checked EXCEPT !.pc = "ended", !.outcome = "Payment Timeout"]
               /\ page' = [page EXCEPT !.toast = "Payment Timeout"]
    /\ UNCHANGED <<now, payments, propPhone, init, provider, cb, stkLog, reminders, query, notifications, propStatus>>

\* checkStatus: the timer fires and the status query answers with an error
\* (or throws): checkStatus returns, and no timer is set
CheckStatusError ==
    /\ poll.pc = "waiting"
    /\ poll' = [poll EXCEPT !.pc = "ended",
                            !.attempts = poll.attempts + 1,
                            !.elapsed = poll.elapsed + NextDelay(poll.attempts)]
    /\ UNCHANGED <<now, payments, propPhone, init, provider, cb, stkLog, reminders, query, page, notifications, propStatus>>

----------------------------------------------------------------------------
(* Table property_notifications and its trigger                            *)
(* update_property_status_on_response, BEFORE UPDATE FOR EACH ROW.         *)

NotificationIds == {"n1", "n2"}

\* the responses the CASE of the trigger has a branch for
Responses == {"unavailable", "sold", "available"}

\* the values an UPDATE may give landlord_response ('rented' stands for the
\* 'etc.' of the column's comment)
ResponseInputs == Responses \cup {NULL, "rented"}

\* a notification as it is inserted: no response yet
NewNotification(propertyId) ==
    [property_id |-> propertyId, landlord_response |-> NULL, responded_at |-> NullTime]

\* one notification was sent for each property
SentNotifications ==
    [n \in NotificationIds |-> NewNotification(IF n = "n1" THEN "p1" ELSE "p2")]

ListedProperties == [p \in Properties |-> "available"]

\* as the trigger function, without the test of the response
UpdatePropertyStatusOnEveryUpdate(old, new, status, t) ==
    IF new.landlord_response \in Responses \/ new.landlord_response = NULL
    THEN [ raised |-> FALSE,
           status |-> IF new.landlord_response = NULL THEN status
                      ELSE [status EXCEPT ![new.property_id] = new.landlord_response],
           row    |-> [new EXCEPT !.responded_at = t] ]
    ELSE [raised |-> TRUE, status |-> status, row |-> old]

\* update_property_status_from_response(): the row that is written and the
\* column properties.status after it; a CASE without a matching branch and
\* without ELSE raises, and the statement is rolled back
UpdatePropertyStatusFromResponse(old, new, status, t) ==
    IF old.landlord_response # new.landlord_response /\ new.landlord_response # NULL
    THEN IF new.landlord_response \in Responses
         THEN [ raised |-> FALSE,
                status |-> [status EXCEPT ![new.property_id] = new.landlord_response],
                row    |-> [new EXCEPT !.responded_at = t] ]
         ELSE [raised |-> TRUE, status |-> status, row |-> old]
    ELSE [raised |-> FALSE, status |-> status, row |-> new]

\* UPDATE property_notifications SET landlord_response = response,
\* property_id = propertyId WHERE id = n
UpdateNotification(n, response, propertyId) ==
    /\ LET old == notifications[n]
           new == [old EXCEPT !.landlord_response = response, !.property_id = propertyId]
           out == UpdatePropertyStatusFromResponse(old, new, propStatus, now)
       IN /\ notifications' = [notifications EXCEPT ![n] = out.row]
          /\ propStatus' = out.status
    /\ UNCHANGED <<now, payments, propPhone, init, provider, cb, stkLog, reminders, query, page, poll>>

----------------------------------------------------------------------------
(* Time *)

\* an instant passes; the result of the last call is stale
TickFine ==
    /\ now < MaxDbDays * Day
    /\ now' = now + 1
    /\ query' = NoQuery
    /\ UNCHANGED <<payments, propPhone, init, provider, cb, stkLog, reminders, page, poll, notifications, propStatus>>

\* days pass
Tick ==
    /\ now + TickDays * Day <= MaxTime
    /\ now' = now + TickDays * Day
    /\ UNCHANGED <<payments, propPhone, init, provider, cb, stkLog, reminders, query, page, poll, notifications, propStatus>>

----------------------------------------------------------------------------

\* properties.phone: one property has a phone, the other has none
PropertyPhones == [p \in Properties |-> IF p = "p1" THEN "0700111222" ELSE NULL]

\* the request bodies of the lifecycle: well-formed ones, one that lacks a
\* field and one whose phone number is refused
LifecycleBodies ==
    [propertyId : {"p1"}, amount : {ContactFee}, phoneNumber : {PhoneLocal}]
    \cup {[propertyId |-> NULL, amount |-> ContactFee, phoneNumber |-> PhoneLocal],
          [propertyId |-> "p1", amount |-> ContactFee, phoneNumber |-> PhoneBad]}

Init ==
    /\ now = 0
    /\ payments = <<>>
    /\ propPhone = PropertyPhones
    /\ init = [s \in Slots |-> IdleInit]
    /\ provider = {}
    /\ cb = [c \in CallbackSlots |-> IdleCallback]
    /\ stkLog = {}
    /\ reminders = {}
    /\ query = NoQuery
    /\ page = IdlePage
    /\ poll = IdlePoll
    /\ notifications = SentNotifications
    /\ propStatus = ListedProperties

Next ==
    \/ \E s \in Slots, auth \in {"u1", "none", "badToken"}, body \in LifecycleBodies, env \in EnvOutcomes :
         Request(s, auth, body, env)
    \/ \E s \in Slots : InsertFails(s)
    \/ \E s \in Slots, configured \in BOOLEAN : InsertRecord(s, configured)
    \/ \E s \in Slots, accepted \in BOOLEAN : StkPushThrows(s, accepted)
    \/ \E s \in Slots : StkPushAccepted(s)
    \/ \E s \in Slots : StkPushRejected(s)
    \/ \E s \in Slots, dbOk \in BOOLEAN : StoreCheckoutId(s, dbOk)
    \/ \E s \in Slots, dbOk \in BOOLEAN : MarkFailed(s, dbOk)
    \/ \E c \in CallbackSlots : CallbackUnparsable(c)
    \/ \E c \in CallbackSlots, msg \in Callbacks : CallbackReceive(c, msg)
    \/ \E c \in CallbackSlots : CallbackUpdate(c)
    \/ \E c \in CallbackSlots : CallbackUpdateFails(c)
    \/ Tick

Spec == Init /\ [][Next]_vars

----------------------------------------------------------------------------
(* The database functions and the reminder job on tables the lifecycle     *)
(* produces, under a clock of TicksPerDay ticks a day.                     *)

\* a record created at t, as the lifecycle leaves it
SampleRow(user, propertyId, t, status) ==
    LET row == [NewPayment(user, propertyId, ContactFee, FormatPhone(PhoneLocal), t)
                  EXCEPT !.checkout_request_id = "ws_CO_1"]
    IN IF status = "completed"
       THEN UpdatedRow(row, [CheckoutRequestID |-> "ws_CO_1", ResultCode |-> 0,
                             Receipt |-> "RCPT"], t)
       ELSE IF status = "failed"
       THEN UpdatedRow(row, [CheckoutRequestID |-> "ws_CO_1", ResultCode |-> 1032,
                             Receipt |-> NULL], t)
       ELSE row

Statuses == {"pending", "completed", "failed"}

\* tables of two records: one of u1 for p1, one of anybody for any property
SampleTables ==
    {<<r1, r2>> :
       r1 \in {SampleRow("u1", "p1", t, st) : t \in 0..(Day - 1), st \in Statuses},
       r2 \in {SampleRow(u, p, 0, st) : u \in Users, p \in Properties,
                                        st \in {"pending", "completed"}}}

InitDb ==
    /\ now = 0
    /\ payments \in SampleTables
    /\ propPhone = PropertyPhones
    /\ init = [s \in Slots |-> IdleInit]
    /\ provider = {}
    /\ cb = [c \in CallbackSlots |-> IdleCallback]
    /\ stkLog = {}
    /\ reminders = {}
    /\ query = NoQuery
    /\ page = IdlePage
    /\ poll = IdlePoll
    /\ notifications = SentNotifications
    /\ propStatus = ListedProperties

NextDb ==
    \/ \E u \in Users, p \in Properties : CheckAccess(u, p)
    \/ \E uid \in Users \cup {NULL} : ListProperties(uid)
    \/ \E skipped \in SUBSET (1..MaxPayments) : RunReminders(skipped)
    \/ TickFine

SpecDb == InitDb /\ [][NextDb]_vars

----------------------------------------------------------------------------
(* The callback function on tables of two records: the column              *)
(* checkout_request_id is not declared unique, so a CheckoutRequestID may  *)
(* match none, one or both.                                                *)

CallbackCheckoutIds == {"ws_CO_1", "ws_CO_2"}

\* a record with the checkout id the initiation function stored, if any
StoredRow(user, propertyId, checkoutId, status) ==
    [SampleRow(user, propertyId, 0, status) EXCEPT !.checkout_request_id = checkoutId]

CallbackTables ==
    {<<r1, r2>> :
       r1 \in {StoredRow("u1", "p1", "ws_CO_1", st) : st \in Statuses},
       r2 \in {StoredRow(u, "p2", id, st) :
                 u \in Users, id \in CallbackCheckoutIds \cup {NULL}, st \in Statuses}}

InitCb ==
    /\ now = 0
    /\ payments \in CallbackTables
    /\ propPhone = PropertyPhones
    /\ init = [s \in Slots |-> IdleInit]
    /\ provider = CallbackCheckoutIds
    /\ cb = [c \in CallbackSlots |-> IdleCallback]
    /\ stkLog = {}
    /\ reminders = {}
    /\ query = NoQuery
    /\ page = IdlePage
    /\ poll = IdlePoll
    /\ notifications = SentNotifications
    /\ propStatus = ListedProperties

NextCb ==
    \/ \E c \in CallbackSlots : CallbackUnparsable(c)
    \/ \E c \in CallbackSlots, msg \in Callbacks : CallbackReceive(c, msg)
    \/ \E c \in CallbackSlots : CallbackUpdate(c)
    \/ \E c \in CallbackSlots : CallbackUpdateFails(c)
    \/ Tick

SpecCb == InitCb /\ [][NextCb]_vars

----------------------------------------------------------------------------
(* The notifications table under updates of its rows.                      *)

NextNotify ==
    \/ \E n \in NotificationIds, response \in ResponseInputs, p \in Properties :
         UpdateNotification(n, response, p)
    \/ Tick

SpecNotify == Init /\ [][NextNotify]_vars

----------------------------------------------------------------------------
(* The page and the modal, with the functions they call.                   *)

\* the callbacks the provider itself sends: a receipt with ResultCode 0, none
\* otherwise; while the page is watched it delivers one
ProviderCallbacks ==
    {m \in Callbacks : m.CheckoutRequestID \in provider
                         /\ (m.Receipt # NULL <=> m.ResultCode = 0)}

NextClient ==
    \/ \E u \in {"u1", NULL}, p \in Properties : OpenPage(u, p)
    \/ OpenModal
    \/ \E s \in Slots, ph \in {PhoneLocal, PhoneBad, <<>>}, env \in EnvOutcomes :
         HandlePayment(s, ph, env)
    \/ \E s \in Slots : PaymentResponse(s)
    \/ CheckStatus
    \/ CheckStatusError
    \/ \E s \in Slots : InsertFails(s)
    \/ \E s \in Slots, configured \in BOOLEAN : InsertRecord(s, configured)
    \/ \E s \in Slots, accepted \in BOOLEAN : StkPushThrows(s, accepted)
    \/ \E s \in Slots : StkPushAccepted(s)
    \/ \E s \in Slots : StkPushRejected(s)
    \/ \E s \in Slots, dbOk \in BOOLEAN : StoreCheckoutId(s, dbOk)
    \/ \E s \in Slots, dbOk \in BOOLEAN : MarkFailed(s, dbOk)
    \/ \E c \in CallbackSlots, msg \in ProviderCallbacks :
         cb[c].pc = "idle" /\ CallbackReceive(c, msg)
    \/ \E c \in CallbackSlots : CallbackUpdate(c)
    \/ \E c \in CallbackSlots : CallbackUpdateFails(c)

SpecClient == Init /\ [][NextClient]_vars

----------------------------------------------------------------------------
(* The initiation function on every request body: each field present or    *)
(* missing, each amount, each form of phone number.                        *)

\* a body the function accepts
WellFormedBody == [propertyId |-> "p1", amount |-> ContactFee, phoneNumber |-> PhoneLocal]

\* the bodies sent: every well-formed one, and one for each way of being refused
InputBodies ==
    {b \in Bodies : /\ b.propertyId # NULL
                    /\ b.amount # 0
                    /\ b.phoneNumber \in {PhoneLocal, PhoneIntl, PhoneBare}}
    \cup {[WellFormedBody EXCEPT !.propertyId = NULL],
          [WellFormedBody EXCEPT !.amount = 0],
          [WellFormedBody EXCEPT !.phoneNumber = <<>>],
          [WellFormedBody EXCEPT !.phoneNumber = PhoneBad]}

NextInput ==
    \/ \E s \in Slots, auth \in {"u1", "none", "badToken"}, body \in InputBodies, env \in EnvOutcomes :
         Request(s, auth, body, env)
    \/ \E s \in Slots : InsertFails(s)
    \/ \E s \in Slots, configured \in BOOLEAN : InsertRecord(s, configured)
    \/ \E s \in Slots, accepted \in BOOLEAN : StkPushThrows(s, accepted)
    \/ \E s \in Slots : StkPushAccepted(s)
    \/ \E s \in Slots : StkPushRejected(s)
    \/ \E s \in Slots, dbOk \in BOOLEAN : StoreCheckoutId(s, dbOk)
    \/ \E s \in Slots, dbOk \in BOOLEAN : MarkFailed(s, dbOk)
    \/ \E c \in CallbackSlots, msg \in ProviderCallbacks :
         cb[c].pc = "idle" /\ CallbackReceive(c, msg)
    \/ \E c \in CallbackSlots : CallbackUpdate(c)
    \/ \E c \in CallbackSlots : CallbackUpdateFails(c)

SpecInput == Init /\ [][NextInput]_vars

----------------------------------------------------------------------------
(* Properties of the payment lifecycle (Spec)                              *)

\* C1: a payment that has left 'pending' keeps its status: 'completed' never
\* becomes 'failed' and 'failed' never becomes 'completed', whatever
\* callbacks arrive for its CheckoutRequestID.
C1_StatusChangesAtMostOnce ==
    [][\A i \in 1..Len(payments) :
         payments[i].payment_status # "pending"
           => payments'[i].payment_status = payments[i].payment_status]_vars

\* C4: a callback for a checkout request whose acceptance (ResponseCode "0")
\* the initiation request has received is answered 200, finds exactly one
\* record and leaves it not 'pending'.
C4_AcceptedCallbackFindsRecord ==
    \A c \in CallbackSlots, s \in Slots :
        (/\ cb[c].pc = "done"
         /\ cb[c].msg # NoCallback
         /\ init[s].checkoutId = cb[c].msg.CheckoutRequestID)
        => /\ cb[c].status = 200
           /\ Cardinality(MatchingIds(payments, cb[c].msg.CheckoutRequestID)) = 1
           /\ \A i \in MatchingIds(payments, cb[c].msg.CheckoutRequestID) :
                 payments[i].payment_status # "pending"

\* C5: a request that created a record and ended with success: false has
\* left that record 'failed'.
C5_FailureAfterInsertMarksFailed ==
    \A s \in Slots :
        (init[s].pc = "done" /\ ~init[s].resp.success /\ init[s].paymentId # 0)
        => payments[init[s].paymentId].payment_status = "failed"

C7_PendingRecordPrecedesPush ==
    /\ \A e \in stkLog :
         /\ e.paymentId \in 1..Len(payments)
         /\ e.recordStatus = "pending"
         /\ payments[e.paymentId].user_id = e.user
         /\ payments[e.paymentId].property_id = e.propertyId
         /\ payments[e.paymentId].phone_number = e.PhoneNumber
    /\ \A e1, e2 \in stkLog : e1.paymentId = e2.paymentId => e1 = e2
    /\ Cardinality(stkLog) <= Len(payments)

\* C7 witness: a push has been sent for a record, and a later request has
\* failed at its insert.
C7_Witness ==
    /\ stkLog # {}
    /\ \E s \in Slots : init[s].resp.error = "Failed to create payment record"

\* C13: when a request has answered success: true with checkoutRequestId c
\* and paymentId p, record p carries checkout_request_id = c.
C13_SuccessMeansCheckoutIdStored ==
    \A s \in Slots :
        (init[s].pc = "done" /\ init[s].resp.success)
        => /\ init[s].resp.paymentId \in 1..Len(payments)
           /\ payments[init[s].resp.paymentId].checkout_request_id
                = init[s].resp.checkoutRequestId

\* C16: a record's expires_at is its creation time plus 14 days from the
\* step that inserts it, and no step changes it; once 14 days have passed
\* since the creation the record grants no access, whenever it was completed.
C16_ExpiryFixedAtCreation ==
    [][/\ \A i \in 1..Len(payments) :
            payments'[i].expires_at = payments[i].expires_at
       /\ \A i \in 1..Len(payments') :
            /\ i > Len(payments) => payments'[i].created_at = now
            /\ payments'[i].expires_at = payments'[i].created_at + ExpiryDays * Day
            /\ now' >= payments'[i].created_at + ExpiryDays * Day
                 => ~HasPaidForContactAccess(<<payments'[i]>>, payments'[i].property_id,
                                             payments'[i].user_id, now')]_vars

\* C16 witness: a callback has completed a payment 14 days or more after its
\* record was created, and the record grants no access.
C16_Witness ==
    \E i \in 1..Len(payments) :
        /\ payments[i].payment_status = "completed"
        /\ payments[i].updated_at >= payments[i].created_at + ExpiryDays * Day
        /\ payments[i].expires_at = payments[i].created_at + ExpiryDays * Day
        /\ ~HasPaidForContactAccess(payments, payments[i].property_id,
                                    payments[i].user_id, now)

----------------------------------------------------------------------------
(* Properties of the initiation function on every request body (SpecInput) *)

\* C11: every phone number stored in a record or sent to the provider is 254
\* followed by a 9-digit subscriber number that begins with 7: twelve digits.
C11_StoredPhoneIsInternational ==
    /\ \A i \in 1..Len(payments) :
          /\ Len(payments[i].phone_number) = 12
          /\ StartsWith(payments[i].phone_number, <<"2", "5", "4">>)
          /\ IsSubscriber(Substring(payments[i].phone_number, 3))
    /\ \A e \in stkLog :
          /\ Len(e.PhoneNumber) = 12
          /\ StartsWith(e.PhoneNumber, <<"2", "5", "4">>)
          /\ IsSubscriber(Substring(e.PhoneNumber, 3))

\* C12: a request without an Authorization header, with a token of no user,
\* without propertyId, amount or phoneNumber, or with a phone number that
\* fails the check ends at once with status 500 and success: false; it
\* inserts no record and sends nothing to the provider.
C12_RejectedRequestHasNoEffect ==
    \A s \in Slots :
        (/\ init[s].pc # "idle"
         /\ \/ init[s].request.auth = "none"
            \/ init[s].request.auth \notin Users
            \/ init[s].request.propertyId = NULL
            \/ init[s].request.amount = 0
            \/ init[s].request.phoneNumber = <<>>
            \/ ~MatchesKenyan(StripNonDigits(init[s].request.phoneNumber)))
        => /\ init[s].pc = "done"
           /\ init[s].resp.status = 500
           /\ ~init[s].resp.success
           /\ init[s].paymentId = 0
           /\ \A e \in stkLog : e.paymentId # init[s].paymentId

\* C12 witness: after a request that created a record and sent a push, a
\* request with a phone number that fails the check has been refused.
C12_Witness ==
    /\ Len(payments) = 1
    /\ Cardinality(stkLog) = 1
    /\ \E s \in Slots :
          /\ init[s].pc = "done"
          /\ init[s].resp.status = 500
          /\ init[s].request.auth \in Users
          /\ init[s].request.phoneNumber = PhoneBad
          /\ init[s].resp.error = "Invalid phone number format. Use format: 0712345678"

\* C17: a record that is 'completed' holds the amount 5000, and the push sent
\* for it asked for the contact fee of 50.
C17_CompletedWasChargedFee ==
    \A i \in 1..Len(payments) :
        payments[i].payment_status = "completed"
        => /\ payments[i].amount = ContactFee * 100
           /\ \A e \in stkLog : e.paymentId = i => e.Amount = ContactFee

----------------------------------------------------------------------------
(* Properties of the callback function (SpecCb)                            *)

\* C14: a callback whose CheckoutRequestID matches no record, or more than
\* one, is answered 404, and a callback that cannot be parsed is answered
\* 500; neither modifies a record, and only a callback that matches exactly
\* one record goes on to the update.
C14_UnmatchedCallbackChangesNothing ==
    [][\A c \in CallbackSlots :
         /\ (/\ cb[c].pc # "update"
             /\ cb'[c] # cb[c]
             /\ cb'[c].msg # NoCallback
             /\ Cardinality(MatchingIds(payments, cb'[c].msg.CheckoutRequestID)) # 1)
            => /\ cb'[c].pc = "done"
               /\ cb'[c].status = 404
               /\ payments' = payments
         /\ (/\ cb[c].pc # "update"
             /\ cb'[c] # cb[c]
             /\ cb'[c].msg = NoCallback)
            => /\ cb'[c].pc = "done"
               /\ cb'[c].status = 500
               /\ payments' = payments
         /\ cb'[c].pc = "update"
            => Cardinality(MatchingIds(payments', cb'[c].msg.CheckoutRequestID)) = 1]_vars

\* C14 witness: a callback whose CheckoutRequestID two records carry has been
\* answered 404.
C14_Witness ==
    \E c \in CallbackSlots :
        /\ cb[c].pc = "done"
        /\ cb[c].status = 404
        /\ Cardinality(MatchingIds(payments, cb[c].msg.CheckoutRequestID)) = 2

\* C15: the update of a processed callback changes only the record that
\* carries its CheckoutRequestID, and of that record only payment_status,
\* updated_at and, when ResultCode is 0 and a receipt number came with it,
\* transaction_id.
C15_CallbackChangesOnlyItsRecord ==
    [][\A c \in CallbackSlots :
         (cb[c].pc = "update" /\ cb'[c].pc = "done" /\ cb'[c].status = 200)
         => /\ Len(payments') = Len(payments)
            /\ \A i \in 1..Len(payments) :
                 IF payments[i].checkout_request_id = cb[c].msg.CheckoutRequestID
                 THEN /\ payments'[i].user_id = payments[i].user_id
                      /\ payments'[i].property_id = payments[i].property_id
                      /\ payments'[i].amount = payments[i].amount
                      /\ payments'[i].phone_number = payments[i].phone_number
                      /\ payments'[i].checkout_request_id = payments[i].checkout_request_id
                      /\ payments'[i].expires_at = payments[i].expires_at
                      /\ payments'[i].transaction_id # payments[i].transaction_id
                           => /\ cb[c].msg.ResultCode = 0
                              /\ cb[c].msg.Receipt # NULL
                              /\ payments'[i].transaction_id = cb[c].msg.Receipt
                 ELSE payments'[i] = payments[i]]_vars

\* C15 witness: a callback with a failure code has been processed for a
\* record that held a receipt number, beside a record of another checkout
\* request; the receipt number is still there.
C15_Witness ==
    \E c \in CallbackSlots :
        /\ cb[c].pc = "done"
        /\ cb[c].status = 200
        /\ cb[c].msg.ResultCode # 0
        /\ cb[c].beforeTransaction # NULL
        /\ payments[cb[c].paymentId].transaction_id = cb[c].beforeTransaction
        /\ \E i \in 1..Len(payments) :
              /\ payments[i].checkout_request_id # NULL
              /\ payments[i].checkout_request_id # cb[c].msg.CheckoutRequestID

----------------------------------------------------------------------------
(* Properties of the database functions and the reminder job (SpecDb)      *)

\* C2: has_paid_for_contact_access is true exactly when some record of that
\* user for that property is 'completed' with expires_at null or later than
\* now; records that are 'pending', 'failed', expired, or of another user or
\* property grant nothing.
C2_AccessIffCompletedUnexpired ==
    query.fn = "has_paid_for_contact_access" =>
        /\ query.granted <=>
             \E i \in 1..Len(payments) :
                /\ payments[i].user_id = query.caller
                /\ payments[i].property_id = query.propertyId
                /\ payments[i].payment_status = "completed"
                /\ (payments[i].expires_at = NullTime \/ payments[i].expires_at > now)
        /\ (\A i \in 1..Len(payments) :
               \/ payments[i].payment_status \in {"pending", "failed"}
               \/ (payments[i].expires_at # NullTime /\ payments[i].expires_at <= now)
               \/ payments[i].user_id # query.caller
               \/ payments[i].property_id # query.propertyId)
           => ~query.granted

\* C2 witness: access was asked for a user whose 'completed' record for the
\* property has expired, and was refused.
C2_Witness ==
    /\ query.fn = "has_paid_for_contact_access"
    /\ ~query.granted
    /\ \E i \in 1..Len(payments) :
          /\ payments[i].user_id = query.caller
          /\ payments[i].property_id = query.propertyId
          /\ payments[i].payment_status = "completed"
          /\ payments[i].expires_at <= now

\* the caller holds a 'completed', unexpired record for the property
Entitled(uid, p) ==
    /\ uid # NULL
    /\ \E i \in 1..Len(payments) :
          /\ payments[i].user_id = uid
          /\ payments[i].property_id = p
          /\ payments[i].payment_status = "completed"
          /\ (payments[i].expires_at = NullTime \/ payments[i].expires_at > now)

\* C3: get_properties_with_conditional_phone gives a property's phone only to
\* an authenticated caller with a 'completed', unexpired record for that
\* property; for any other caller the column is NULL, and the result is the
\* same whatever that property's phone is.
C3_PhoneOnlyForEntitledCaller ==
    query.fn = "get_properties_with_conditional_phone" =>
        \A p \in Properties :
            /\ Entitled(query.caller, p) => query.phones[p] = propPhone[p]
            /\ ~Entitled(query.caller, p) =>
                 /\ query.phones[p] = NULL
                 /\ \A v \in {NULL, "0700111222", "0700333444"} :
                      GetPropertiesWithConditionalPhone(
                          payments, [propPhone EXCEPT ![p] = v], query.caller, now)
                        = query.phones

\* C3 witness: a caller with a 'completed', unexpired record for another
\* property listed the properties and got no phone for one that has a phone.
C3_Witness ==
    /\ query.fn = "get_properties_with_conditional_phone"
    /\ \E p, q \in Properties :
          /\ p # q
          /\ Entitled(query.caller, q)
          /\ ~Entitled(query.caller, p)
          /\ propPhone[p] # NULL
          /\ query.phones[p] = NULL

\* C8: every reminder is for a 'completed' record whose expires_at lies
\* between 2 and 3 days after the moment the job ran.
C8_ReminderWindowFromRunTime ==
    \A e \in reminders :
        /\ payments[e.paymentId].payment_status = "completed"
        /\ payments[e.paymentId].expires_at >= e.ranAt + 2 * Day
        /\ payments[e.paymentId].expires_at <= e.ranAt + 3 * Day

----------------------------------------------------------------------------
(* Properties of the page and the modal (SpecClient)                       *)

\* C9: once the poll has observed 'completed', the page treats the user as
\* paid and its contact button carries the property's phone whenever the
\* property has one.
C9_ContactShownAfterPayment ==
    (poll.pc = "ended" /\ poll.outcome = "Payment Successful")
    => /\ page.hasPaidForContact
       /\ propPhone[page.propertyId] # NULL
            => ContactButton(page).tel = propPhone[page.propertyId]

\* C10: the poll makes at most 60 checks, the first after 3 seconds and the
\* others 5 seconds apart, and when it has ended it has shown exactly one of
\* the success, 'Payment Failed' and 'Payment Timeout' toasts.
C10_PollEndsWithOneOutcome ==
    /\ poll.attempts <= MaxAttempts
    /\ poll.attempts > 0 => poll.elapsed = FirstDelay + (poll.attempts - 1) * PollDelay
    /\ poll.pc = "ended" =>
         poll.outcome \in {"Payment Successful", "Payment Failed", "Payment Timeout"}

----------------------------------------------------------------------------
(* Properties of the notifications trigger (SpecNotify)                    *)

\* C18: an update of a notification that changes landlord_response to
\* 'available', 'unavailable' or 'sold' leaves the status of the
\* notification's property equal to the response and responded_at set to the
\* time of the update; an update that keeps landlord_response, or makes it
\* NULL, changes no property's status and not responded_at.
C18_ResponseSetsPropertyStatus ==
    [][\A n \in NotificationIds :
         /\ (/\ notifications'[n].landlord_response # notifications[n].landlord_response
             /\ notifications'[n].landlord_response \in {"available", "unavailable", "sold"})
            => /\ propStatus'[notifications'[n].property_id]
                    = notifications'[n].landlord_response
               /\ notifications'[n].responded_at # NullTime
               /\ notifications'[n].responded_at = now
         /\ (/\ notifications'[n] # notifications[n]
             /\ \/ notifications'[n].landlord_response = notifications[n].landlord_response
                \/ notifications'[n].landlord_response = NULL)
            => /\ propStatus' = propStatus
               /\ notifications'[n].responded_at = notifications[n].responded_at]_vars

\* C18 witness: one notification was answered 'sold' after the clock had
\* advanced and its property is 'sold'; the response of another was made NULL
\* again, and its responded_at and its property's status stayed.
C18_Witness ==
    \E n, m \in NotificationIds :
        /\ notifications[n].landlord_response = "sold"
        /\ notifications[n].responded_at > 0
        /\ propStatus[notifications[n].property_id] = "sold"
        /\ notifications[m].landlord_response = NULL
        /\ notifications[m].responded_at # NullTime
        /\ propStatus[notifications[m].property_id] = "unavailable"

====
